---- MODULE Spec2Model ----
(***************************************************************************)
(* Model of the browser-side scripts of the device management platform:    *)
(*   - admin_mobile.js : the mobile admin controller (edit modal, REST)    *)
(*   - the user-side utility script (debounce, throttle, validateForm)     *)
(*                                                                         *)
(* JavaScript strings that the code inspects (trim, length, regex) are     *)
(* sequences of one-character strings.  Literal messages are TLA+ strings; *)
(* the Chinese literals of the source are written in pinyin, the original  *)
(* text is given by the source line each definition is mapped to.          *)
(*                                                                         *)
(* Reading of confirmEdit: the switch of confirmEdit declares              *)
(* `const remarks` in case 'borrow' (line 251) and again in case 'edit'    *)
(* (line 291).  The model reads each case with its own `remarks`, which is *)
(* the behaviour of the function once that declaration clash is resolved.  *)
(***************************************************************************)
EXTENDS Integers, Sequences, FiniteSets, Bags, TLC

----------------------------------------------------------------------------
(* Bounds of the model *)

NumDevices == 2        \* devices in the `devices` array of the page
MaxAsync == 1          \* async calls (show*Modal, confirmEdit) suspended in an await at once
MaxTime == 3           \* the clock of the timer model runs from 0 to MaxTime
MaxWait == 2           \* largest wait/limit a wrapper is created with
MaxBurst == 2          \* calls of one burst that are counted
MaxRules == 2          \* longest rule list of a field given to validateForm

----------------------------------------------------------------------------
(* JavaScript values *)

\* '' : the empty string
EmptyStr == <<>>

\* null / undefined where a string is expected (device.model, response.message)
JsNull == <<"null">>

IsWhite(c) == c = " "

\* String.prototype.trim
RECURSIVE TrimLeft(_)
TrimLeft(s) ==
    IF s # <<>> /\ IsWhite(Head(s)) THEN TrimLeft(Tail(s)) ELSE s

RECURSIVE TrimRight(_)
TrimRight(s) ==
    IF s # <<>> /\ IsWhite(s[Len(s)]) THEN TrimRight(SubSeq(s, 1, Len(s) - 1)) ELSE s

TrimNoop(s) == s

Trim(s) == TrimRight(TrimLeft(s))

\* a || b for a string-or-null a
OrElse(a, b) == IF a = JsNull \/ a = EmptyStr THEN b ELSE a

\* !x for a string-or-null x
Falsy(x) == x = JsNull \/ x = EmptyStr

----------------------------------------------------------------------------
(* The page: devices array supplied by the sibling script *)

NoDevice == 0                       \* currentDevice = null
DeviceIds == 1 .. NumDevices
UnknownId == NumDevices + 1         \* an id devices.find does not find

\* devices[d]; odd devices carry no model/cabinet/remarks/borrower
Device(d) ==
    [ id |-> d,
      device_name |-> <<"d">>,
      model    |-> IF d % 2 = 1 THEN JsNull ELSE <<"m">>,
      cabinet  |-> IF d % 2 = 1 THEN JsNull ELSE <<"c">>,
      remarks  |-> IF d % 2 = 1 THEN EmptyStr ELSE <<"r">>,
      borrower |-> IF d % 2 = 1 THEN JsNull ELSE <<"u">>,
      status   |-> IF d % 2 = 1 THEN JsNull ELSE <<"liutong">> ]

\* devices.find(d => d.id === deviceId); NoDevice when nothing matches
FindDevice(deviceId) == IF deviceId \in DeviceIds THEN deviceId ELSE NoDevice

\* the <option> values of the status select, in document order; a status
\* is a string of one (non-blank) symbol
StatusOptions ==
    << <<"zaiku">>, <<"yijichu">>, <<"weixiuzhong">>, <<"yisunhuai">>,
       <<"baofei">>, <<"liutong">>, <<"fengcun">>, <<"wuguihao">> >>

\* the fieldType arguments showEditFieldModal is written for
FieldTypes == {"borrower", "cabinet", "keeper", "status"}

\* toast texts
ToastSelectBorrower == "qing xuanze jieyongren"
ToastSelectNewBorrower == "qing xuanze xin jieyongren"
ToastSuccess == "caozuo chenggong"
ToastFailed == "caozuo shibai"
ToastNetworkError == "wangluo cuowu"

----------------------------------------------------------------------------
(* State of the admin page *)

VARIABLES
    currentDevice,    \* id of the device object held, NoDevice for null
    currentEditType,  \* the edit-type tag
    users,            \* cached result of GET /api/users
    modalShown,       \* #editModal has class 'show'
    editTitle,        \* #editModalTitle.textContent
    editBody,         \* #editModalBody: [tpl |-> template, el |-> id -> value]
    pending,          \* bag of show*Modal calls suspended in `await loadUsers()`
    inflight,         \* bag of confirmEdit calls suspended in an await: the device of
                      \* the request, and (history) whether closeEditModal has run since
    op,               \* the confirmEdit step taken last, "other" after any other step
    toasted,          \* messages passed to showToast by the last step
    sent,             \* requests passed to fetch by the last step
    reloaded,         \* number of loadDevices() calls made by the last step
    received,         \* responses the last step resumed a confirmEdit call with
    typeOwner         \* history: the `device` local of the call that set currentEditType

pageVars == << currentDevice, currentEditType, users, modalShown, editTitle,
               editBody, pending, inflight, op,
               toasted, sent, reloaded, received, typeOwner >>

\* user lists GET /api/users may answer with
UserA == [borrower_name |-> <<"a">>, weixin_name |-> <<"w">>]
UserB == [borrower_name |-> <<"b">>, weixin_name |-> JsNull]
UserLists == { <<UserA, UserB>> }

\* what the user may type into a borrower input
TextValues == { EmptyStr, <<" ">>, <<" ", "b">> }

\* what the user may type into any other text input or textarea
NoteValues == { <<" ", "n">> }

\* what the user may set the number input editBorrowDays to
DaysValues == { EmptyStr }

\* the {success, message?} objects a device request may be answered with
Responses ==
    { [success |-> TRUE, hasMessage |-> FALSE, message |-> ""],
      [success |-> FALSE, hasMessage |-> FALSE, message |-> ""],
      [success |-> FALSE, hasMessage |-> TRUE, message |-> ""],
      [success |-> FALSE, hasMessage |-> TRUE, message |-> "shebei yi bei jiechu"] }

\* the empty #editModalBody
NoEls == [x \in {} |-> EmptyStr]
EmptyBody == [tpl |-> "", el |-> NoEls]

\* <option value="${u.borrower_name}">${u.borrower_name} ${u.weixin_name ? '(' + u.weixin_name + ')' : ''}</option>
UserOption(u) ==
    [ value |-> u.borrower_name,
      label |-> u.borrower_name \o <<" ">> \o
                (IF Falsy(u.weixin_name) THEN EmptyStr
                 ELSE <<"(">> \o u.weixin_name \o <<")">>) ]

UserOptions(us) == [i \in 1 .. Len(us) |-> UserOption(us[i])]

BorrowBody(us) ==
    [ tpl |-> "borrow",
      el |-> [ editBorrowUser |-> EmptyStr,
               userList |-> UserOptions(us),
               editBorrowDays |-> <<"1">>,
               editBorrowRemarks |-> EmptyStr ] ]

ReturnBody == [tpl |-> "return", el |-> NoEls]

TransferBody(us) ==
    [ tpl |-> "transfer",
      el |-> [ editTransferUser |-> EmptyStr,
               userList |-> UserOptions(us),
               editTransferRemarks |-> EmptyStr ] ]

EditBody(device) ==
    [ tpl |-> "edit",
      el |-> [ editDeviceName |-> device.device_name,
               editDeviceModel |-> OrElse(device.model, EmptyStr),
               editDeviceCabinet |-> OrElse(device.cabinet, EmptyStr),
               editDeviceRemarks |-> OrElse(device.remarks, EmptyStr) ] ]

\* value of the status <select>: the option marked selected, else the first
SelectedStatus(device) ==
    IF \E i \in 1 .. Len(StatusOptions) : StatusOptions[i] = device.status
    THEN device.status
    ELSE StatusOptions[1]

FieldBody(device, fieldType) ==
    CASE fieldType = "borrower" ->
           [tpl |-> "field_borrower",
            el |-> [editFieldValue |-> OrElse(device.borrower, EmptyStr)]]
      [] fieldType = "cabinet" ->
           [tpl |-> "field_cabinet",
            el |-> [editFieldValue |-> OrElse(device.cabinet, EmptyStr)]]
      [] fieldType = "keeper" ->
           [tpl |-> "field_keeper",
            el |-> [editFieldValue |-> OrElse(device.cabinet, EmptyStr)]]
      [] fieldType = "status" ->
           [tpl |-> "field_status",
            el |-> [editFieldValue |-> SelectedStatus(device)]]
      [] OTHER -> EmptyBody

\* 'field_' + fieldType
FieldTag(fieldType) ==
    CASE fieldType = "borrower" -> "field_borrower"
      [] fieldType = "cabinet" -> "field_cabinet"
      [] fieldType = "keeper" -> "field_keeper"
      [] fieldType = "status" -> "field_status"
      [] OTHER -> "field_"

\* currentEditType.replace('field_', '')
FieldName(tag) ==
    CASE tag = "field_borrower" -> "borrower"
      [] tag = "field_cabinet" -> "cabinet"
      [] tag = "field_keeper" -> "keeper"
      [] tag = "field_status" -> "status"
      [] OTHER -> tag

InitPage ==
    /\ currentDevice = NoDevice
    /\ currentEditType = ""
    /\ users = <<>>
    /\ modalShown = FALSE
    /\ editTitle = ""
    /\ editBody = EmptyBody
    /\ pending = EmptyBag
    /\ inflight = EmptyBag
    /\ op = "other"
    /\ toasted = <<>>
    /\ sent = <<>>
    /\ reloaded = 0
    /\ received = <<>>
    /\ typeOwner = NoDevice

\* number of async calls suspended in an await
Suspended == BagCardinality(pending) + BagCardinality(inflight)

\* what a step that shows no toast, sends nothing and reloads nothing leaves
Quiet ==
    /\ op' = "other"
    /\ toasted' = <<>>
    /\ sent' = <<>>
    /\ reloaded' = 0
    /\ received' = <<>>

----------------------------------------------------------------------------
(* Requests *)

NoJson == [x \in {} |-> EmptyStr]

\* fetch('/api/users')
UsersRequest ==
    [method |-> "GET", id |-> NoDevice, action |-> "users", hasBody |-> FALSE, body |-> NoJson]

\* fetch(`/api/devices/${id}/${action}`, {method, body: JSON.stringify(body)});
\* action "" is the device resource /api/devices/${id} itself
DeviceRequest(method, id, action, hasBody, body) ==
    [method |-> method, id |-> id, action |-> action, hasBody |-> hasBody, body |-> body]

----------------------------------------------------------------------------
(* Opening and closing the edit modal *)

\* showToast(message): the step's record of it (toast.textContent is the
\* last message recorded)
ShowToast(message) ==
    /\ toasted' = << message >>

\* `if (!device) return;` of every show*Modal
ShowNothing ==
    /\ Quiet
    /\ UNCHANGED << currentDevice, currentEditType, users, modalShown, editTitle,
                    editBody, pending, inflight, typeOwner >>

\* showBorrowModal / showTransferModal up to `await loadUsers()`, where
\* loadUsers has called fetch('/api/users')
ShowAsyncStart(fn, deviceId) ==
    LET device == FindDevice(deviceId) IN
    IF device = NoDevice THEN ShowNothing
    ELSE /\ Suspended < MaxAsync
         /\ currentDevice' = device
         /\ pending' = pending (+) SetToBag({[fn |-> fn, device |-> device]})
         /\ op' = "other"
         /\ toasted' = <<>>
         /\ sent' = << UsersRequest >>
         /\ reloaded' = 0
         /\ received' = <<>>
         /\ UNCHANGED << currentEditType, users, modalShown, editTitle, editBody,
                         inflight, typeOwner >>

ShowBorrowModal(deviceId) == ShowAsyncStart("borrow", deviceId)

ShowTransferModal(deviceId) == ShowAsyncStart("transfer", deviceId)

\* the rest of showBorrowModal / showTransferModal once loadUsers has returned
\* with the users array `us`
ShowAsyncRest(t, us) ==
    /\ editTitle' = IF t.fn = "borrow" THEN "luru dengji (jiechu shebei)" ELSE "zhuanjie shebei"
    /\ editBody' = IF t.fn = "borrow" THEN BorrowBody(us) ELSE TransferBody(us)
    /\ currentEditType' = t.fn
    /\ modalShown' = TRUE
    /\ typeOwner' = t.device

\* loadUsers fails (fetch or response.json() rejects): caught and logged,
\* users kept; the suspended show*Modal call runs to its end
LoadUsersFailed(t) ==
    /\ BagIn(t, pending)
    /\ pending' = pending (-) SetToBag({t})
    /\ users' = users
    /\ ShowAsyncRest(t, users)
    /\ Quiet
    /\ UNCHANGED << currentDevice, inflight >>

\* loadUsers: `users = await response.json()` with the decoded array `us`;
\* the suspended show*Modal call runs to its end
LoadUsersDone(t, us) ==
    /\ BagIn(t, pending)
    /\ pending' = pending (-) SetToBag({t})
    /\ users' = us
    /\ ShowAsyncRest(t, us)
    /\ Quiet
    /\ UNCHANGED << currentDevice, inflight >>

\* the three synchronous show*Modal functions
ShowSync(deviceId, title, body, tag) ==
    LET device == FindDevice(deviceId) IN
    IF device = NoDevice THEN ShowNothing
    ELSE /\ currentDevice' = device
         /\ editTitle' = title
         /\ editBody' = body
         /\ currentEditType' = tag
         /\ modalShown' = TRUE
         /\ typeOwner' = device
         /\ Quiet
         /\ UNCHANGED << users, pending, inflight >>

ShowReturnModal(deviceId) ==
    ShowSync(deviceId, "qiangzhi guihuan shebei", ReturnBody, "return")

ShowEditModal(deviceId) ==
    ShowSync(deviceId, "bianji shebei", EditBody(Device(FindDevice(deviceId))), "edit")

\* fieldLabels[fieldType]
FieldLabel(fieldType) ==
    CASE fieldType = "borrower" -> "jieyongren"
      [] fieldType = "cabinet" -> "guihao"
      [] fieldType = "keeper" -> "baoguanren"
      [] fieldType = "status" -> "zhuangtai"
      [] OTHER -> "undefined"

ShowEditFieldModal(deviceId, fieldType) ==
    ShowSync(deviceId, FieldLabel(fieldType),
             FieldBody(Device(FindDevice(deviceId)), fieldType), FieldTag(fieldType))

\* the requests of bag `B`, each marked as having seen closeEditModal run
MarkClosed(B) ==
    LET old(x) == [x EXCEPT !.closed = FALSE]
        count(x) == IF x \in DOMAIN B THEN B[x] ELSE 0
    IN  [x \in {[e EXCEPT !.closed = TRUE] : e \in BagToSet(B)} |-> count(x) + count(old(x))]

\* the assignments of closeEditModal
CloseEffects ==
    /\ modalShown' = FALSE
    /\ currentDevice' = NoDevice
    /\ currentEditType' = ""
    /\ typeOwner' = NoDevice

CloseEditModal ==
    /\ CloseEffects
    /\ inflight' = MarkClosed(inflight)
    /\ Quiet
    /\ UNCHANGED << users, editTitle, editBody, pending >>

\* the ids of the elements of the modal body the user can edit
Editable(body) == DOMAIN body.el \ {"userList", "editDeviceName"}

\* the values the user can give element `id` of `body`
Choices(body, id) ==
    IF body.tpl = "field_status" THEN {StatusOptions[i] : i \in 1 .. Len(StatusOptions)}
    ELSE IF id = "editBorrowDays" THEN DaysValues
    ELSE IF id \in {"editBorrowUser", "editTransferUser"} THEN TextValues
    ELSE NoteValues

\* the user edits a field of the shown modal
UserInput(id, v) ==
    /\ modalShown
    /\ id \in Editable(editBody)
    /\ v \in Choices(editBody, id)
    /\ editBody' = [editBody EXCEPT !.el[id] = v]
    /\ Quiet
    /\ UNCHANGED << currentDevice, currentEditType, users, modalShown, editTitle,
                    pending, inflight, typeOwner >>

----------------------------------------------------------------------------
(* confirmEdit *)

DigitChars == << "0", "1", "2", "3", "4", "5", "6", "7", "8", "9" >>

IsDigit(c) == \E i \in 1 .. 10 : DigitChars[i] = c

DigitVal(c) == (CHOOSE i \in 1 .. 10 : DigitChars[i] = c) - 1

RECURSIVE ParseDigits(_, _)
ParseDigits(s, acc) ==
    IF s # <<>> /\ IsDigit(Head(s))
    THEN ParseDigits(Tail(s), acc * 10 + DigitVal(Head(s)))
    ELSE acc

\* parseInt(s) for decimal input: leading blanks, a sign, the longest run of
\* digits; NaN when there is no digit
ParseInt(s) ==
    LET t == TrimLeft(s)
        neg == t # <<>> /\ Head(t) = "-"
        u == IF t # <<>> /\ Head(t) \in {"-", "+"} THEN Tail(t) ELSE t
    IN  IF u = <<>> \/ ~IsDigit(Head(u))
        THEN [isNaN |-> TRUE, n |-> 0]
        ELSE [isNaN |-> FALSE, n |-> IF neg THEN 0 - ParseDigits(u, 0) ELSE ParseDigits(u, 0)]

\* document.getElementById(id) is not null for every id of `ids`
HasEls(body, ids) == ids \subseteq DOMAIN body.el

\* the last segment of the request URL; "" is /api/devices/${id} itself
BorrowEndpoint == "borrow"
ReturnEndpoint == "return"
TransferToBorrow == "borrow"
TransferEndpoint == "transfer"
DeviceEndpoint == ""

MissingUserUnchecked(value, message) == <<>>

\* `if (!user) { showToast(message); return; }` on the trimmed input value:
\* the toasts shown
MissingUser(value, message) ==
    IF Falsy(Trim(value)) THEN << message >> ELSE <<>>

\* case 'borrow' of confirmEdit
ConfirmBorrow(dev, body) ==
    IF ~HasEls(body, {"editBorrowUser", "editBorrowDays", "editBorrowRemarks"})
    THEN [kind |-> "throw"]
    ELSE LET user == Trim(body.el["editBorrowUser"])
             days == body.el["editBorrowDays"]
             remarks == Trim(body.el["editBorrowRemarks"])
             missing == MissingUser(body.el["editBorrowUser"], ToastSelectBorrower)
         IN  IF missing # <<>>
             THEN [kind |-> "toast", message |-> missing[1]]
             ELSE [kind |-> "fetch",
                   request |-> DeviceRequest("POST", Device(dev).id, BorrowEndpoint, TRUE,
                       [user |-> user, days |-> ParseInt(days), remarks |-> remarks])]

\* case 'return' of confirmEdit
ConfirmReturn(dev, body) ==
    [kind |-> "fetch",
     request |-> DeviceRequest("POST", Device(dev).id, ReturnEndpoint, FALSE, NoJson)]

\* case 'transfer' of confirmEdit
ConfirmTransfer(dev, body) ==
    IF ~HasEls(body, {"editTransferUser", "editTransferRemarks"})
    THEN [kind |-> "throw"]
    ELSE LET transferUser == Trim(body.el["editTransferUser"])
             transferRemarks == Trim(body.el["editTransferRemarks"])
             missing == MissingUser(body.el["editTransferUser"], ToastSelectNewBorrower)
         IN  IF missing # <<>>
             THEN [kind |-> "toast", message |-> missing[1]]
             ELSE [kind |-> "fetch",
                   request |-> DeviceRequest("POST", Device(dev).id, TransferEndpoint, TRUE,
                       [user |-> transferUser, remarks |-> transferRemarks])]

\* case 'edit' of confirmEdit
ConfirmFullEdit(dev, body) ==
    IF ~HasEls(body, {"editDeviceModel", "editDeviceCabinet", "editDeviceRemarks"})
    THEN [kind |-> "throw"]
    ELSE [kind |-> "fetch",
          request |-> DeviceRequest("PUT", Device(dev).id, DeviceEndpoint, TRUE,
              [model |-> Trim(body.el["editDeviceModel"]),
               cabinet |-> Trim(body.el["editDeviceCabinet"]),
               remarks |-> Trim(body.el["editDeviceRemarks"])])]

\* cases 'field_borrower', 'field_cabinet', 'field_keeper', 'field_status'
ConfirmField(dev, tag, body) ==
    IF ~HasEls(body, {"editFieldValue"})
    THEN [kind |-> "throw"]
    ELSE LET fieldValue == Trim(body.el["editFieldValue"])
             fieldName == FieldName(tag)
         IN  [kind |-> "fetch",
              request |-> DeviceRequest("PUT", Device(dev).id, DeviceEndpoint, TRUE,
                  fieldName :> fieldValue)]

\* confirmEdit up to its first await or return:
\*   "return" : `if (!currentDevice) return;`
\*   "toast"  : a required field is missing
\*   "fetch"  : the request the matching case passes to fetch
\*   "throw"  : an exception inside the try block (a null element, or
\*              `result.json()` on the undefined result of an unmatched tag)
ConfirmOutcome(dev, tag, body) ==
    IF dev = NoDevice THEN [kind |-> "return"]
    ELSE CASE tag = "borrow" -> ConfirmBorrow(dev, body)
           [] tag = "return" -> ConfirmReturn(dev, body)
           [] tag = "transfer" -> ConfirmTransfer(dev, body)
           [] tag = "edit" -> ConfirmFullEdit(dev, body)
           [] tag \in {"field_borrower", "field_cabinet", "field_keeper", "field_status"} ->
                ConfirmField(dev, tag, body)
           [] OTHER -> [kind |-> "throw"]

ConfirmEdit ==
    LET o == ConfirmOutcome(currentDevice, currentEditType, editBody) IN
    /\ op' = "confirmEdit"
    /\ reloaded' = 0
    /\ received' = <<>>
    /\ CASE o.kind = "return" ->
              /\ toasted' = <<>>
              /\ sent' = <<>>
              /\ UNCHANGED inflight
         [] o.kind = "toast" ->
              /\ ShowToast(o.message)
              /\ sent' = <<>>
              /\ UNCHANGED inflight
         [] o.kind = "throw" ->
              /\ ShowToast(ToastNetworkError)
              /\ sent' = <<>>
              /\ UNCHANGED inflight
         [] o.kind = "fetch" ->
              /\ Suspended < MaxAsync
              /\ inflight' = inflight (+) SetToBag({[device |-> currentDevice, closed |-> FALSE]})
              /\ toasted' = <<>>
              /\ sent' = << o.request >>
    /\ UNCHANGED << currentDevice, currentEditType, users, modalShown, editTitle,
                    editBody, pending, typeOwner >>

\* the catch block: fetch rejects, result.json() rejects, or the decoded
\* response is null so that `response.success` throws
ConfirmCaught(r) ==
    /\ BagIn(r, inflight)
    /\ inflight' = inflight (-) SetToBag({r})
    /\ op' = "confirmEdit.caught"
    /\ ShowToast(ToastNetworkError)
    /\ sent' = <<>>
    /\ reloaded' = 0
    /\ received' = <<>>
    /\ UNCHANGED << currentDevice, currentEditType, users, modalShown, editTitle,
                    editBody, pending, typeOwner >>

RespondAlwaysClose(response) ==
    [ message |-> IF response.success THEN ToastSuccess
                  ELSE IF response.hasMessage /\ response.message # "" THEN response.message
                  ELSE ToastFailed,
      close |-> TRUE,
      reloads |-> 1 ]

RespondNoMessage(response) ==
    IF response.success
    THEN [message |-> ToastSuccess, close |-> TRUE, reloads |-> 1]
    ELSE [message |-> ToastFailed, close |-> FALSE, reloads |-> 0]

\* `if (response.success) {...} else {...}`: the toast, whether closeEditModal
\* runs, and the number of loadDevices calls
Respond(response) ==
    IF response.success
    THEN [message |-> ToastSuccess, close |-> TRUE, reloads |-> 1]
    ELSE [message |-> IF response.hasMessage /\ response.message # ""
                      THEN response.message ELSE ToastFailed,
          close |-> FALSE,
          reloads |-> 0]

\* fetch and result.json() resolve with the decoded object `response`; the
\* rest of confirmEdit runs
ConfirmResponded(r, response) ==
    LET o == Respond(response) IN
    /\ BagIn(r, inflight)
    /\ op' = "confirmEdit.responded"
    /\ received' = << [request |-> r, response |-> response] >>
    /\ ShowToast(o.message)
    /\ sent' = <<>>
    /\ reloaded' = o.reloads
    /\ IF o.close
       THEN /\ CloseEffects
            /\ inflight' = MarkClosed(inflight (-) SetToBag({r}))
       ELSE /\ inflight' = inflight (-) SetToBag({r})
            /\ UNCHANGED << modalShown, currentDevice, currentEditType, typeOwner >>
    /\ UNCHANGED << users, editTitle, editBody, pending >>

----------------------------------------------------------------------------
(* debounce and throttle of the utility script *)
(*                                                                         *)
(* Time is a clock `now`; setTimeout(f, d) adds a timer due at now + d and *)
(* a timer runs when the clock reaches its due time, before the clock      *)
(* moves on.                                                               *)

VARIABLES
    now,         \* the clock
    kind,        \* kind[w]: wrapper w was made by "debounce" or by "throttle"
    wait,        \* wait[w]: the wait / limit argument wrapper w was made with
    timeout,     \* timeout[w]: the `timeout` variable of a debounce closure:
                 \* <<>> while undefined, else << timer >>
    inThrottle,  \* inThrottle[w]: the `inThrottle` variable of a throttle closure
    timers,      \* bag of the pending timers [owner, due, args]
    lastCall,    \* history: lastCall[w] = << [at, args] >> of the last call of debounce
                 \* wrapper w not yet followed by an invocation, else <<>>
    burst,       \* history: calls of debounce wrapper w in its latest burst, counted
                 \* up to MaxBurst
    lastInvoked, \* history: time func of w was last invoked, -1 if never
    step,        \* the step taken last: [name, w, args]
    invoked      \* the func invocations [w, args, threw] made by the last step

timerVars == << now, kind, wait, timeout, inThrottle, timers, lastCall, burst,
                lastInvoked, step, invoked >>

\* two wrappers, each made by its own debounce(...) or throttle(...) call
Wrappers == {1, 2}

\* the arguments a wrapper is called with
Args == {"a", "b"}

NoArgs == "-"

\* func(...args) returns, or throws and so ends the function that called it
FuncOutcomes == {"returns", "throws"}

\* an invocation of the func of wrapper w
Invocation(w, args, outcome) == [w |-> w, args |-> args, threw |-> outcome = "throws"]

NeverInvoked == 0 - 1

InitTimers ==
    /\ now = 0
    /\ kind \in [Wrappers -> {"debounce", "throttle"}]
    /\ wait \in [Wrappers -> 0 .. MaxWait]
    /\ timeout = [w \in Wrappers |-> <<>>]
    /\ inThrottle = [w \in Wrappers |-> FALSE]
    /\ timers = EmptyBag
    /\ lastCall = [w \in Wrappers |-> <<>>]
    /\ burst = [w \in Wrappers |-> 0]
    /\ lastInvoked = [w \in Wrappers |-> NeverInvoked]
    /\ step = [name |-> "init", w |-> 0, args |-> NoArgs]
    /\ invoked = <<>>

\* a timer whose time has come has not run yet
TimerDue == \E t \in BagToSet(timers) : t.due <= now

\* setTimeout(callback, delay): the timer created
Timer(w, delay, args) == [owner |-> w, due |-> now + delay, args |-> args]

ClearTimeoutNoop(pendingTimers, handle) == pendingTimers

\* clearTimeout(handle): the pending timers left
ClearTimeout(pendingTimers, handle) ==
    IF handle # <<>> /\ BagIn(handle[1], pendingTimers)
    THEN pendingTimers (-) SetToBag({handle[1]})
    ELSE pendingTimers

\* executedFunction(...args) of debounce
DebounceCall(w, args) ==
    LET later == Timer(w, wait[w], args) IN
    /\ timers' = ClearTimeout(timers, timeout[w]) (+) SetToBag({later})
    /\ timeout' = [timeout EXCEPT ![w] = << later >>]
    /\ invoked' = <<>>
    /\ lastCall' = [lastCall EXCEPT ![w] = << [at |-> now, args |-> args] >>]
    /\ burst' = [burst EXCEPT ![w] = IF lastCall[w] = <<>> THEN 1
                                     ELSE IF @ < MaxBurst THEN @ + 1 ELSE @]
    /\ UNCHANGED << inThrottle, lastInvoked >>

\* `if (!inThrottle)`
ThrottleOpen(flag) == ~flag

\* the function returned by throttle
ThrottleCall(w, args) ==
    IF ThrottleOpen(inThrottle[w])
    THEN /\ \E outcome \in FuncOutcomes :
              /\ invoked' = << Invocation(w, args, outcome) >>
              /\ IF outcome = "returns"
                 THEN /\ inThrottle' = [inThrottle EXCEPT ![w] = TRUE]
                      /\ timers' = timers (+) SetToBag({Timer(w, wait[w], NoArgs)})
                 ELSE UNCHANGED << inThrottle, timers >>
         /\ lastInvoked' = [lastInvoked EXCEPT ![w] = now]
         /\ UNCHANGED << timeout, lastCall, burst >>
    ELSE /\ invoked' = <<>>
         /\ UNCHANGED << lastInvoked, inThrottle, timers, timeout, lastCall, burst >>

\* wrapper w is called with `args`
Call(w, args) ==
    /\ now + wait[w] <= MaxTime
    /\ IF kind[w] = "debounce" THEN DebounceCall(w, args) ELSE ThrottleCall(w, args)
    /\ step' = [name |-> "call", w |-> w, args |-> args]
    /\ UNCHANGED << now, kind, wait >>

\* `later` of debounce runs: clearTimeout(timeout); func(...args)
DebounceLater(t) ==
    /\ timers' = ClearTimeout(timers (-) SetToBag({t}), timeout[t.owner])
    /\ \E outcome \in FuncOutcomes : invoked' = << Invocation(t.owner, t.args, outcome) >>
    /\ lastInvoked' = [lastInvoked EXCEPT ![t.owner] = now]
    /\ lastCall' = [lastCall EXCEPT ![t.owner] = <<>>]
    /\ UNCHANGED << timeout, inThrottle, burst >>

\* `() => inThrottle = false` of throttle runs
ThrottleReset(t) ==
    /\ timers' = timers (-) SetToBag({t})
    /\ inThrottle' = [inThrottle EXCEPT ![t.owner] = FALSE]
    /\ invoked' = <<>>
    /\ UNCHANGED << timeout, lastInvoked, lastCall, burst >>

\* a due timer runs
Fire(t) ==
    /\ BagIn(t, timers)
    /\ t.due <= now
    /\ IF kind[t.owner] = "debounce" THEN DebounceLater(t) ELSE ThrottleReset(t)
    /\ step' = [name |-> "timer", w |-> t.owner, args |-> t.args]
    /\ UNCHANGED << now, kind, wait >>

\* the clock advances
Tick ==
    /\ ~TimerDue
    /\ now < MaxTime
    /\ now' = now + 1
    /\ step' = [name |-> "tick", w |-> 0, args |-> NoArgs]
    /\ invoked' = <<>>
    /\ UNCHANGED << kind, wait, timeout, inThrottle, timers, lastCall, burst,
                    lastInvoked >>

----------------------------------------------------------------------------
(* validators and validateForm of the utility script *)
(*                                                                         *)
(* A rule result is [ok |-> TRUE] for `true`, else [ok |-> FALSE] with the *)
(* value returned: a message [text, n], n being the length a default       *)
(* message is built from.                                                  *)

VARIABLES
    formData,    \* formData[field]: a string, or JsNull when the field is missing
    rules,       \* rules[field]: the list of rules of the field
    result       \* <<>>, or << what validateForm(formData, rules) gave >>

formVars == << formData, rules, result >>

\* `for (const field in rules)` visits the fields in this order
FieldOrder == << "name", "phone" >>

Fields == {FieldOrder[i] : i \in 1 .. Len(FieldOrder)}

ValidPhone == << "1", "3", "8", "0", "0", "1", "3", "8", "0", "0", "0" >>

\* the values of formData.name and formData.phone
FieldValues(field) ==
    IF field = "phone" THEN {JsNull, ValidPhone, <<"1", "2">>}
    ELSE {JsNull, <<" ">>, <<"a", "b">>}

RTrue == [ok |-> TRUE, text |-> "true", n |-> 0]

RMessage(text, n) == [ok |-> FALSE, text |-> text, n |-> n]

\* `undefined`
RUndefined == RMessage("undefined", 0)

\* a call that throws a TypeError
Threw == [ok |-> FALSE, text |-> "TypeError", n |-> 0 - 1]

\* validators.required(value, message)
Required(value, message) ==
    IF Falsy(value) \/ Trim(value) = EmptyStr THEN RMessage(message, 0) ELSE RTrue

\* /^1[3-9]\d{9}$/.test(value); a missing value is tested as 'undefined'
PhoneRegex(value) ==
    /\ value # JsNull
    /\ Len(value) = 11
    /\ value[1] = "1"
    /\ IsDigit(value[2]) /\ DigitVal(value[2]) >= 3
    /\ \A i \in 3 .. 11 : IsDigit(value[i])

\* validators.phone(value)
Phone(value) ==
    IF ~PhoneRegex(value) THEN RMessage("qing shuru zhengque de shoujihao", 0) ELSE RTrue

\* validators.minLength(value, length): value.length throws for a missing value
MinLength(value, length) ==
    IF value = JsNull THEN Threw
    ELSE IF Len(value) < length THEN RMessage("zuishao xuyao n ge zifu", length)
    ELSE RTrue

\* validators.maxLength(value, length, message)
MaxLength(value, length, message) ==
    IF value = JsNull THEN Threw
    ELSE IF Len(value) > length THEN RMessage(message, 0)
    ELSE RTrue

\* the rules a rule list is made of
StringRule == [type |-> "string", message |-> "ci xiang wei bitian"]
PhoneRule == [type |-> "array", validatorName |-> "phone"]
MinLengthRule == [type |-> "array", validatorName |-> "minLength", length |-> 3]
MaxLengthRule == [type |-> "array", validatorName |-> "maxLength", length |-> 1,
                  message |-> "tai chang"]
\* v => v === 'ab' || 'bu shi ab'
FunctionRule == [type |-> "function"]
\* a rule that is no function, string or array, such as {min: 3}
ObjectRule == [type |-> "object"]

\* the rules given for a field
RuleSet(field) ==
    IF field = "phone" THEN {StringRule, PhoneRule}
    ELSE {StringRule, PhoneRule, MinLengthRule, MaxLengthRule, FunctionRule, ObjectRule}

RuleLists(field) == UNION {[1 .. n -> RuleSet(field)] : n \in 0 .. MaxRules}

\* the `result` validateForm computes for one rule
ApplyRule(rule, value) ==
    CASE rule.type = "function" ->
           IF value = <<"a", "b">> THEN RTrue ELSE RMessage("bu shi ab", 0)
      [] rule.type = "string" -> Required(value, rule.message)
      [] rule.type = "array" /\ rule.validatorName = "phone" -> Phone(value)
      [] rule.type = "array" /\ rule.validatorName = "minLength" ->
           MinLength(value, rule.length)
      [] rule.type = "array" /\ rule.validatorName = "maxLength" ->
           MaxLength(value, rule.length, rule.message)
      [] rule.type = "array" -> Threw    \* validators[validatorName] is undefined
      [] OTHER -> RUndefined

RECURSIVE CheckRulesNoBreak(_, _, _, _)
CheckRulesNoBreak(value, fieldRules, i, acc) ==
    IF i > Len(fieldRules) THEN acc
    ELSE LET r == ApplyRule(fieldRules[i], value) IN
         IF r = Threw THEN [threw |-> TRUE, failed |-> FALSE, error |-> r, evaluated |-> i]
         ELSE CheckRulesNoBreak(value, fieldRules, i + 1,
                  IF r.ok THEN [acc EXCEPT !.evaluated = i]
                  ELSE [threw |-> FALSE, failed |-> TRUE, error |-> r, evaluated |-> i])

\* `for (const rule of fieldRules) {...}` from rule i on: whether a rule
\* threw, whether errors[field] was set and to what, and how many rules
\* were evaluated
RECURSIVE CheckRules(_, _, _, _)
CheckRules(value, fieldRules, i, acc) ==
    IF i > Len(fieldRules) THEN acc
    ELSE LET r == ApplyRule(fieldRules[i], value) IN
         IF r = Threw THEN [threw |-> TRUE, failed |-> FALSE, error |-> r, evaluated |-> i]
         ELSE IF ~r.ok THEN [threw |-> FALSE, failed |-> TRUE, error |-> r, evaluated |-> i]
         ELSE CheckRules(value, fieldRules, i + 1, [acc EXCEPT !.evaluated = i])

NoneEvaluated == [threw |-> FALSE, failed |-> FALSE, error |-> RTrue, evaluated |-> 0]

\* validateForm(formData, rules)
ValidateForm(data, fieldRules) ==
    LET checked == [f \in Fields |-> CheckRules(data[f], fieldRules[f], 1, NoneEvaluated)]
        failed == {f \in Fields : checked[f].failed}
        errors == [f \in failed |-> checked[f].error]
    IN  IF \E f \in Fields : checked[f].threw
        THEN [threw |-> TRUE]
        ELSE [threw |-> FALSE,
              isValid |-> DOMAIN errors = {},
              errors |-> errors,
              evaluated |-> [f \in Fields |-> checked[f].evaluated]]

InitForm ==
    /\ formData \in {data \in [Fields -> UNION {FieldValues(f) : f \in Fields}] :
                        \A f \in Fields : data[f] \in FieldValues(f)}
    /\ rules \in {r \in [Fields -> UNION {RuleLists(f) : f \in Fields}] :
                     \A f \in Fields : r[f] \in RuleLists(f)}
    /\ result = <<>>

\* the form is filled in
SetField(field, value) ==
    /\ formData' = [formData EXCEPT ![field] = value]
    /\ result' = <<>>
    /\ UNCHANGED rules

\* validateForm is called on the form
Validate ==
    /\ result' = << ValidateForm(formData, rules) >>
    /\ UNCHANGED << formData, rules >>

----------------------------------------------------------------------------
(* The admin page as a whole *)

vars == << pageVars, timerVars, formVars >>

\* the timer model at rest
TimersOff ==
    /\ now = 0
    /\ kind = [w \in Wrappers |-> "debounce"]
    /\ wait = [w \in Wrappers |-> 0]
    /\ timeout = [w \in Wrappers |-> <<>>]
    /\ inThrottle = [w \in Wrappers |-> FALSE]
    /\ timers = EmptyBag
    /\ lastCall = [w \in Wrappers |-> <<>>]
    /\ burst = [w \in Wrappers |-> 0]
    /\ lastInvoked = [w \in Wrappers |-> NeverInvoked]
    /\ step = [name |-> "init", w |-> 0, args |-> NoArgs]
    /\ invoked = <<>>

\* no form under validation
FormOff ==
    /\ formData = [f \in Fields |-> EmptyStr]
    /\ rules = [f \in Fields |-> <<>>]
    /\ result = <<>>

\* a step of the admin page leaves the utilities alone, and so on
PageOnly == UNCHANGED << timerVars, formVars >>
TimersOnly == UNCHANGED << pageVars, formVars >>
FormOnly == UNCHANGED << pageVars, timerVars >>

InitAdmin == InitPage /\ TimersOff /\ FormOff

NextPage ==
    \/ \E d \in DeviceIds \cup {UnknownId} : ShowBorrowModal(d) /\ PageOnly
    \/ \E d \in DeviceIds \cup {UnknownId} : ShowTransferModal(d) /\ PageOnly
    \/ \E d \in DeviceIds \cup {UnknownId} : ShowReturnModal(d) /\ PageOnly
    \/ \E d \in DeviceIds \cup {UnknownId} : ShowEditModal(d) /\ PageOnly
    \/ \E d \in DeviceIds \cup {UnknownId}, f \in FieldTypes :
          ShowEditFieldModal(d, f) /\ PageOnly
    \/ \E t \in BagToSet(pending) : LoadUsersFailed(t) /\ PageOnly
    \/ \E t \in BagToSet(pending), us \in UserLists : LoadUsersDone(t, us) /\ PageOnly
    \/ CloseEditModal /\ PageOnly
    \/ \E id \in Editable(editBody) : \E v \in Choices(editBody, id) :
          UserInput(id, v) /\ PageOnly
    \/ ConfirmEdit /\ PageOnly
    \/ \E r \in BagToSet(inflight) : ConfirmCaught(r) /\ PageOnly
    \/ \E r \in BagToSet(inflight), response \in Responses :
          ConfirmResponded(r, response) /\ PageOnly

\* the admin page
Spec == InitAdmin /\ [][NextPage]_vars

InitWrappers == InitTimers /\ InitPage /\ FormOff

TimerRuns == \E t \in BagToSet(timers) : Fire(t) /\ TimersOnly

\* a due timer of wrapper w runs
TimerRunsOf(w) == \E t \in BagToSet(timers) : t.owner = w /\ Fire(t) /\ TimersOnly

ClockAdvances == Tick /\ TimersOnly

NextTimers ==
    \/ \E w \in Wrappers, a \in Args : Call(w, a) /\ TimersOnly
    \/ TimerRuns
    \/ ClockAdvances

\* wrappers made by debounce and throttle; the event loop runs every timer
\* that is due, and time does not stand still for ever
SpecTimers ==
    /\ InitWrappers
    /\ [][NextTimers]_vars
    /\ \A w \in Wrappers : WF_vars(TimerRunsOf(w))
    /\ SF_vars(ClockAdvances)

InitValidation == InitForm /\ InitPage /\ TimersOff

NextForm ==
    \/ \E f \in Fields : \E v \in FieldValues(f) : SetField(f, v) /\ FormOnly
    \/ Validate /\ FormOnly

\* validateForm applied to forms and rule lists
SpecForm == InitValidation /\ [][NextForm]_vars

----------------------------------------------------------------------------
(* Properties of the admin page *)

\* a string that is empty after trimming: nothing but blanks
AllBlank(v) == \A i \in 1 .. Len(v) : v[i] = " "

\* the borrower input of the active borrow or transfer modal is blank
BlankBorrower ==
    \/ /\ currentEditType = "borrow"
       /\ "editBorrowUser" \in DOMAIN editBody.el
       /\ AllBlank(editBody.el["editBorrowUser"])
    \/ /\ currentEditType = "transfer"
       /\ "editTransferUser" \in DOMAIN editBody.el
       /\ AllBlank(editBody.el["editTransferUser"])

SessionUnchanged == UNCHANGED << currentDevice, currentEditType, modalShown >>

\* C1: a confirmEdit call with a current device, edit type borrow or transfer
\* and a borrower input that is empty after trimming sends no request, shows
\* exactly the one toast of its edit type, and leaves currentDevice,
\* currentEditType and the modal's shown state as they were.
C1_MissingBorrowerBlocks ==
    [][ (op' = "confirmEdit" /\ currentDevice # NoDevice /\ BlankBorrower)
        => /\ sent' = <<>>
           /\ inflight' = inflight
           /\ toasted' = << IF currentEditType = "borrow" THEN ToastSelectBorrower
                            ELSE ToastSelectNewBorrower >>
           /\ SessionUnchanged ]_pageVars

\* C1 witness: confirmEdit has just refused a borrow whose borrower input
\* holds one blank
C1_Witness ==
    /\ op = "confirmEdit"
    /\ currentDevice # NoDevice
    /\ currentEditType = "borrow"
    /\ modalShown
    /\ editBody.el["editBorrowUser"] = << " " >>
    /\ toasted = << ToastSelectBorrower >>
    /\ sent = <<>>

\* C2: on a response with success=true confirmEdit shows the success toast,
\* hides the modal, resets currentDevice to null and currentEditType to '',
\* and calls loadDevices once; no other step of confirmEdit closes the modal
\* or calls loadDevices.
C2_SuccessClosesAndReloads ==
    [][ /\ (op' = "confirmEdit.responded" /\ received'[1].response.success)
           => /\ toasted' = << ToastSuccess >>
              /\ ~modalShown'
              /\ currentDevice' = NoDevice
              /\ currentEditType' = ""
              /\ reloaded' = 1
        /\ (\/ op' \in {"confirmEdit", "confirmEdit.caught"}
            \/ (op' = "confirmEdit.responded" /\ ~received'[1].response.success))
           => /\ reloaded' = 0
              /\ SessionUnchanged ]_pageVars

\* C2 witness: a success response has just closed the modal and reloaded
C2_Witness ==
    /\ op = "confirmEdit.responded"
    /\ received[1].response.success
    /\ toasted = << ToastSuccess >>
    /\ ~modalShown
    /\ reloaded = 1

\* the toast of a success=false response: its message, or the generic text
FailureToast(response) ==
    IF response.hasMessage /\ response.message # "" THEN response.message
    ELSE ToastFailed

\* C3: every exit of confirmEdit is a return, in or after the try block: a
\* success=false response shows one toast, the server message or the generic
\* failure text; a failed fetch or JSON decoding shows the one toast
\* 'network error', and so does an exception raised before any request (a
\* current device with no edit type); in all of them currentDevice,
\* currentEditType and the shown state are unchanged and loadDevices is not called.
C3_FailuresOnlyToast ==
    [][ /\ (op' = "confirmEdit.responded" /\ ~received'[1].response.success)
           => /\ toasted' = << FailureToast(received'[1].response) >>
              /\ reloaded' = 0
              /\ SessionUnchanged
        /\ (op' = "confirmEdit.caught")
           => /\ toasted' = << ToastNetworkError >>
              /\ reloaded' = 0
              /\ SessionUnchanged
        /\ (op' = "confirmEdit" /\ currentDevice # NoDevice /\ currentEditType = "")
           => /\ toasted' = << ToastNetworkError >>
              /\ sent' = <<>>
              /\ reloaded' = 0
              /\ SessionUnchanged ]_pageVars

\* C3 witness: a success=false response carrying a message has just been
\* shown while the modal stays open
C3_Witness ==
    /\ op = "confirmEdit.responded"
    /\ ~received[1].response.success
    /\ received[1].response.hasMessage
    /\ received[1].response.message # ""
    /\ toasted = << received[1].response.message >>
    /\ modalShown
    /\ currentDevice # NoDevice

\* the edit-type tags a show*Modal call leaves active
ActiveTags ==
    { "borrow", "return", "transfer", "edit",
      "field_borrower", "field_cabinet", "field_keeper", "field_status" }

\* the HTTP method the interface gives each tag
ExpectedMethod(tag) == IF tag \in {"borrow", "return", "transfer"} THEN "POST" ELSE "PUT"

\* the path below /api/devices/{id} the interface gives each tag
ExpectedAction(tag) == IF tag \in {"borrow", "return", "transfer"} THEN tag ELSE ""

\* C4: the edit type is always '' or a tag of ActiveTags, and a confirmEdit
\* call with a current device, such a tag and a borrower that is not blank
\* sends exactly one request, to the endpoint of the tag and for the id of
\* the device that is currentDevice when confirmEdit is called.
C4_EndpointByTag ==
    [][ /\ currentEditType' \in ActiveTags \cup {""}
        /\ (op' = "confirmEdit" /\ currentDevice # NoDevice
              /\ currentEditType \in ActiveTags /\ ~BlankBorrower)
           => /\ Len(sent') = 1
              /\ sent'[1].method = ExpectedMethod(currentEditType)
              /\ sent'[1].action = ExpectedAction(currentEditType)
              /\ sent'[1].id = currentDevice
              /\ toasted' = <<>> ]_pageVars

\* C4 witness: confirmEdit has just sent the transfer of device 2
C4_Witness ==
    /\ op = "confirmEdit"
    /\ currentEditType = "transfer"
    /\ currentDevice = 2
    /\ Len(sent) = 1
    /\ sent[1].action = "transfer"
    /\ sent[1].id = 2

\* the keys PUT /api/devices/{id} accepts
PutKeys == {"model", "cabinet", "remarks", "borrower", "status"}

\* C5 (as claimed): every PUT request confirmEdit sends has a body whose
\* keys are among model, cabinet, remarks, borrower, status.
C5_PutKeysClaim ==
    (op = "confirmEdit" /\ Len(sent) = 1 /\ sent[1].method = "PUT")
    => DOMAIN sent[1].body \subseteq PutKeys

\* C9 (as claimed): whenever the modal is shown, currentDevice is not null
\* and is the device of the show*Modal call that set currentEditType, and
\* every request confirmEdit sends is for that device.
C9_SessionCoherentClaim ==
    /\ modalShown => (currentDevice # NoDevice /\ currentDevice = typeOwner)
    /\ (op = "confirmEdit" /\ Len(sent) = 1) => sent[1].id = typeOwner

\* C10 (as claimed): a success response to a request issued for one device,
\* arriving after the modal was closed and while it is shown again for
\* another device, leaves the modal shown and currentDevice and
\* currentEditType unchanged.
C10_ResponseOwnSessionClaim ==
    [][ (op' = "confirmEdit.responded" /\ received'[1].response.success
           /\ received'[1].request.closed
           /\ modalShown /\ currentDevice # NoDevice
           /\ received'[1].request.device # currentDevice)
        => /\ modalShown'
           /\ currentDevice' = currentDevice
           /\ currentEditType' = currentEditType ]_pageVars

----------------------------------------------------------------------------
(* debounce and throttle *)

Debounced == {w \in Wrappers : kind[w] = "debounce"}

Throttled == {w \in Wrappers : kind[w] = "throttle"}

TimersOf(w, pendingTimers) == {t \in BagToSet(pendingTimers) : t.owner = w}

Invokes(w) == invoked' # <<>> /\ invoked'[1].w = w

\* func is invoked no sooner than wait[w] after its last invocation
ApartFromLast(w) == lastInvoked[w] # NeverInvoked => now' - lastInvoked[w] >= wait[w]

\* a step that invokes func of a debounce wrapper
DebounceInvokes(w) ==
    /\ step'.name = "timer"
    /\ Len(invoked') = 1
    /\ lastCall[w] # <<>>
    /\ now' = lastCall[w][1].at + wait[w]
    /\ invoked'[1].args = lastCall[w][1].args
    /\ ApartFromLast(w)
    /\ lastCall'[w] = <<>>
    /\ TimersOf(w, timers') = {}

\* a debounce wrapper has a timer pending exactly while a call waits for its
\* invocation, and never two
OneTimerPerBurst ==
    \A w \in Debounced :
        /\ lastCall[w] = <<>> <=> TimersOf(w, timers) = {}
        /\ \A t \in TimersOf(w, timers) : CopiesIn(t, timers) = 1 /\ timeout[w] = << t >>
        /\ Cardinality(TimersOf(w, timers)) <= 1

\* C6: a burst of calls of a debounced function gives exactly one invocation
\* of func, wait ms after the last call of the burst and with that call's
\* arguments; func never runs twice within one window; every call is
\* eventually followed by an invocation.
C6_Debounce ==
    /\ [][\A w \in Debounced : Invokes(w) => DebounceInvokes(w)]_vars
    /\ []OneTimerPerBurst
    /\ \A w \in Wrappers :
           (kind[w] = "debounce" /\ lastCall[w] # <<>>) ~> (lastCall[w] = <<>>)

\* func has just run for a burst of several calls made at different times
C6_Witness ==
    /\ step.name = "timer"
    /\ step.w \in Debounced
    /\ wait[step.w] > 0
    /\ burst[step.w] >= 2
    /\ invoked # <<>>
    /\ invoked[1].w = step.w
    /\ invoked[1].args = "b"
    /\ lastInvoked[step.w] = now
    /\ now > wait[step.w]

\* what a call of throttle wrapper w must do
ThrottleCalled(w) ==
    /\ lastInvoked[w] = NeverInvoked =>
           /\ Invokes(w)
           /\ invoked'[1].args = step'.args
    /\ (lastInvoked[w] # NeverInvoked /\ now < lastInvoked[w] + wait[w]) =>
           /\ invoked' = <<>>
           /\ timers' = timers
           /\ inThrottle' = inThrottle
           /\ lastInvoked' = lastInvoked
    /\ Invokes(w) => Len(invoked') = 1 /\ ApartFromLast(w)

\* a call of w touches nothing of another wrapper
OthersUntouched(w) ==
    /\ invoked' # <<>> => invoked'[1].w = w
    /\ \A v \in Wrappers \ {w} :
           /\ timeout'[v] = timeout[v]
           /\ inThrottle'[v] = inThrottle[v]
           /\ lastInvoked'[v] = lastInvoked[v]
           /\ TimersOf(v, timers') = TimersOf(v, timers)
           /\ \A t \in TimersOf(v, timers) : CopiesIn(t, timers') = CopiesIn(t, timers)

C7_Step ==
    /\ \A w \in Throttled :
           /\ (step'.name = "call" /\ step'.w = w) => ThrottleCalled(w)
           /\ (step'.name = "timer" /\ step'.w = w) => invoked' = <<>>
    /\ \A w \in Wrappers :
           (step'.name = "call" /\ step'.w = w) => OthersUntouched(w)

\* C7: a throttled function invokes func at once on its first call, drops
\* the calls made less than limit ms after an invocation and never makes up
\* for them later, so func runs at most once per window; the wrappers of
\* different debounce/throttle calls do not touch each other's state.
C7_Throttle == [][C7_Step]_vars

\* a call of a throttled function has just been dropped while the other
\* wrapper had a timer pending
C7_Witness ==
    /\ step.name = "call"
    /\ step.w \in Throttled
    /\ invoked = <<>>
    /\ lastInvoked[step.w] # NeverInvoked
    /\ now < lastInvoked[step.w] + wait[step.w]
    /\ \E v \in Wrappers \ {step.w} : TimersOf(v, timers) # {}

----------------------------------------------------------------------------
(* validateForm *)

\* what rule i of field f gives for the field's value
RuleResult(f, i) == ApplyRule(rules[f][i], formData[f])

\* the first rule of field f whose result is not true, if there is one
FirstFailing(f) ==
    {i \in 1 .. Len(rules[f]) :
        ~RuleResult(f, i).ok /\ \A j \in 1 .. i - 1 : RuleResult(f, j).ok}

\* C8: validateForm evaluates the rules of a field in order and stops at the
\* first whose result is not true; errors[field] is that result and no later
\* rule of the field is evaluated; a field whose rules all pass is absent
\* from errors; isValid is true exactly when no field has a failing rule.
C8_ValidateForm ==
    (result # <<>> /\ ~result[1].threw) =>
        /\ \A f \in Fields :
               /\ \A i \in FirstFailing(f) :
                      /\ f \in DOMAIN result[1].errors
                      /\ result[1].errors[f] = RuleResult(f, i)
                      /\ result[1].evaluated[f] = i
               /\ FirstFailing(f) = {} =>
                      /\ f \notin DOMAIN result[1].errors
                      /\ result[1].evaluated[f] = Len(rules[f])
        /\ result[1].isValid <=> \A f \in Fields : FirstFailing(f) = {}

\* a form validated with two rules on `name` that both fail, with different
\* results, and a rule on `phone` that passes
C8_Witness ==
    /\ result # <<>>
    /\ ~result[1].threw
    /\ Len(rules["name"]) = 2
    /\ ~RuleResult("name", 1).ok
    /\ ~RuleResult("name", 2).ok
    /\ RuleResult("name", 1) # RuleResult("name", 2)
    /\ result[1].errors["name"] = RuleResult("name", 1)
    /\ Len(rules["phone"]) = 1
    /\ RuleResult("phone", 1).ok
    /\ ~result[1].isValid

----------------------------------------------------------------------------
(* days of a borrow request *)

\* the request is the POST of a borrow
IsBorrowRequest(request) ==
    request.method = "POST" /\ request.action = BorrowEndpoint /\ request.hasBody

\* parseInt gave an integer from 1 to 365
DaysInRange(days) == ~days.isNaN /\ days.n >= 1 /\ days.n <= 365

\* C11: every borrow request sent by confirmEdit carries a `days` that is an
\* integer from 1 to 365, whatever the days input holds when confirm is
\* pressed; when the input holds no such value no borrow request is sent.
C11_BorrowDaysClaim ==
    [][(op' = "confirmEdit" /\ sent' # <<>> /\ IsBorrowRequest(sent'[1]))
           => DaysInRange(sent'[1].body.days)]_pageVars

============================================================================
